---- MODULE Spec2Model ----
(***************************************************************************)
(* Model of eagle::dasm::segment_dasm and of the block explorer of main()  *)
(* in src/src/example.cpp (first revision in the file, lines 1-236).       *)
(*                                                                         *)
(* Addresses are uint32_t in the source; the model scales the width down   *)
(* to 0..MaxAddr with the same wrap-around arithmetic.                     *)
(* The decoder (ZydisDecoderDecodeFull, ZydisCalcAbsoluteAddress) is an    *)
(* external collaborator: a buffer is modelled as the sequence of what the *)
(* decoder yields when it is started at each byte offset.                  *)
(***************************************************************************)
EXTENDS Integers, Sequences, FiniteSets, TLC

\* ---------------------------------------------------------------- bounds
MaxAddr == 2
MaxBuf == 2
MaxInsts == 3
MaxBase == 1
MaxBlocks == 2

AddrMod == MaxAddr + 1
Addr == 0 .. MaxAddr
U32(x) == x % AddrMod

\* ------------------------------------------------- decoder collaborator
Imm(r) == [kind |-> "imm", rel |-> r]
Reg == [kind |-> "reg", rel |-> 0]

Nop1 == [branching |-> "none", length |-> 1, operands |-> <<>>]
Mov2 == [branching |-> "none", length |-> 2, operands |-> <<Reg, Reg>>]
Jmp == [branching |-> "jmp", length |-> 2, operands |-> <<Imm(1), Reg>>]
Jcc == [branching |-> "jcc", length |-> 2, operands |-> <<Imm(1), Reg, Reg>>]
Ret == [branching |-> "ret", length |-> 1, operands |-> <<Reg, Reg>>]
Bad == [branching |-> "bad", length |-> 0, operands |-> <<>>]

\* dec::inst_info decoded_instruction{} : the value-initialised record
ZeroInst == [branching |-> "none", length |-> 0, operands |-> <<>>]

Cells == {Nop1, Mov2, Jmp, Jcc, Ret, Bad}
Buffers == UNION {[1 .. n -> Cells] : n \in 1 .. MaxBuf}

\* the decoder started at byte offset `offset` of `buf` with `window` bytes
ZydisDecoderDecodeFull(buf, offset, window) ==
    IF offset < Len(buf) /\ buf[offset + 1] # Bad
       /\ buf[offset + 1].length <= window
    THEN [ok |-> TRUE, inst |-> buf[offset + 1]]
    ELSE [ok |-> FALSE, inst |-> ZeroInst]

\* absolute target of a relative immediate operand; other operands fail
ZydisCalcAbsoluteAddress(inst, operand, runtime_address) ==
    IF operand.kind = "imm"
    THEN [ok |-> TRUE, addr |-> U32(runtime_address + inst.length + operand.rel)]
    ELSE [ok |-> FALSE, addr |-> runtime_address]

\* ------------------------------------------------------------------ state
VARIABLES
    data_buffer_begin,  \* the bytes the session was constructed over
    buffer_size,
    rva,                \* constructor argument: base address of the buffer
    rva_begin, rva_end, \* members of segment_dasm
    current_rva,        \* the cursor
    call,               \* the last call made on the session and its outcome
    last_set,           \* the argument of the latest set_current_rva, if any
    start_rva,          \* seed of the exploration
    discovered_rvas, blocks, rva_queue,
    pc,                 \* position of main()
    first_run           \* what an earlier run of the explorer ended with

vars == <<data_buffer_begin, buffer_size, rva, rva_begin, rva_end, current_rva,
          call, last_set, start_rva, discovered_rvas, blocks, rva_queue, pc,
          first_run>>

\* (uint32_t)-1, the value insert_branch compares with
NoBranch == U32(0 - 1)

\* --------------------------------------------------------- segment_dasm
\* basic_block block{} : every field value-initialised
basic_block == [rva_begin |-> 0, rva_end |-> 0, branch_one |-> 0, branch_two |-> 0,
                insts |-> <<>>]

get_current_rva == current_rva

\* set_current_rva without its assignment to current_rva
set_current_rva_no_store(a) == [cursor |-> current_rva, prev |-> current_rva]

\* [new cursor, returned previous cursor]
set_current_rva(a) == [cursor |-> a, prev |-> current_rva]

\* the buffer offset and the window handed to the decoder
DecodeOffset == 0

DecodeWindow == buffer_size - DecodeOffset

\* [decoded instruction, instruction length]
decode_current ==
    LET offset == DecodeOffset
        d == ZydisDecoderDecodeFull(data_buffer_begin, offset, DecodeWindow)
    IN  [inst |-> d.inst, size |-> offset]

\* results of the loop over the operands of a branching instruction
BranchTargets(inst, cur) ==
    LET F[i \in 0 .. Len(inst.operands)] ==
            IF i = 0 THEN <<>>
            ELSE LET r == ZydisCalcAbsoluteAddress(inst, inst.operands[i], cur)
                 IN  IF r.ok THEN Append(F[i - 1], r.addr) ELSE F[i - 1]
    IN  F[Len(inst.operands)]

\* the vector of successor addresses of the instruction at cursor cur
get_branches(cur) ==
    LET d == decode_current
    IN  IF d.inst.branching = "none"
        THEN <<U32(cur + d.size)>>
        ELSE BranchTargets(d.inst, cur)

\* 0 when the instruction at the cursor does not transfer control
does_branch(cur) ==
    IF decode_current.inst.branching = "none" THEN 0 ELSE 1

\* std::get<i>(branches): element i of the vector; reading past its size is
\* undefined, any value may come out
BranchSlot(branches, i) ==
    IF i <= Len(branches) THEN {branches[i]} ELSE Addr

\* one pass of the body of the while loop of get_block
GetBlockBody(block) ==
    LET d == decode_current
    IN  [block EXCEPT !.insts = Append(@, d.inst), !.rva_end = U32(@ + d.size)]

\* the statements of get_block after its loop
GetBlockFinish(block, cur, decoded) ==
    LET branches == get_branches(cur)
    IN  {[returned |-> TRUE,
          block |-> [block EXCEPT !.branch_one = b[1], !.branch_two = b[2]],
          cursor |-> cur, decoded |-> decoded \cup {cur}]
         : b \in BranchSlot(branches, 1) \X BranchSlot(branches, 2)}

RECURSIVE GetBlockLoop(_, _, _, _)
GetBlockLoop(block, cur, decoded, fuel) ==
    IF does_branch(cur) # 0
    THEN GetBlockFinish(block, cur, decoded \cup {cur})
    ELSE IF fuel = 0
         THEN {[returned |-> FALSE, block |-> block, cursor |-> cur,
                decoded |-> decoded \cup {cur}]}
         ELSE LET b == GetBlockBody(block)
              IN  GetBlockLoop(b, set_current_rva(b.rva_end).cursor,
                               decoded \cup {cur}, fuel - 1)

\* the outcomes of get_block(a): the returned block, the cursor it leaves and
\* the cursors at which it invoked the decoder; returned = FALSE when the
\* loop is still running after MaxInsts passes
get_block(a) ==
    GetBlockLoop([basic_block EXCEPT !.rva_begin = set_current_rva(a).cursor],
                 set_current_rva(a).cursor, {}, MaxInsts)

RECURSIVE DumpLoop(_, _, _, _, _, _, _, _)
DumpLoop(insts, rva_current, i, end, cur, block_rva_end, decoded, fuel) ==
    IF ~(i < end)
    THEN {[returned |-> TRUE, insts |-> insts, cursor |-> cur, decoded |-> decoded,
           consumed |-> rva_current]}
    ELSE IF fuel = 0
         THEN {[returned |-> FALSE, insts |-> insts, cursor |-> cur,
                decoded |-> decoded, consumed |-> rva_current]}
         ELSE LET d == decode_current
              IN  DumpLoop(Append(insts, d.inst), U32(rva_current + d.size), i, end,
                           set_current_rva(block_rva_end).cursor, block_rva_end,
                           decoded \cup {cur}, fuel - 1)

\* the outcomes of dump_section(begin, end). `block` is not a name in scope
\* of set_current_rva(block.rva_end) and the loop does not assign it: the
\* cursor is set to one and the same unknown address in every pass
dump_section(begin, end) ==
    UNION {DumpLoop(<<>>, begin, begin, end, current_rva, v, {}, MaxInsts)
           : v \in Addr}

\* ------------------------------------------------- calls on the session
NoCall == [fn |-> "none", arg1 |-> 0, arg2 |-> 0, returned |-> TRUE,
           value |-> 0, block |-> basic_block, insts |-> <<>>, branches |-> <<>>,
           decoded |-> {}, consumed |-> 0]

\* last_set before the first call of set_current_rva
NeverSet == 0 - 1

\* first_run before a run has ended
NoRun == [done |-> FALSE, discovered |-> {}, blocks |-> <<>>]

\* segment_dasm(data_buff, size, rva): rva_begin is assigned from itself and
\* current_rva is not assigned, both hold whatever the storage held
Init ==
    /\ data_buffer_begin \in Buffers
    /\ buffer_size = Len(data_buffer_begin)
    /\ rva \in 0 .. MaxBase
    /\ rva_begin \in Addr
    /\ rva_end = U32(rva_begin + buffer_size)
    /\ current_rva \in Addr
    /\ call = NoCall
    /\ last_set = NeverSet
    /\ first_run = NoRun
    /\ start_rva = 0
    /\ discovered_rvas = {}
    /\ blocks = <<>>
    /\ rva_queue = <<>>
    /\ pc = "start"

SessionReady == pc = "start" /\ call.returned

ExplorerUnchanged ==
    UNCHANGED <<start_rva, discovered_rvas, blocks, rva_queue, pc, first_run>>

BufferUnchanged == UNCHANGED <<data_buffer_begin, buffer_size, rva, rva_begin, rva_end>>

SetCurrentRva(a) ==
    /\ SessionReady
    /\ current_rva' = set_current_rva(a).cursor
    /\ call' = [NoCall EXCEPT !.fn = "set_current_rva", !.arg1 = a,
                              !.value = set_current_rva(a).prev]
    /\ last_set' = a
    /\ BufferUnchanged /\ ExplorerUnchanged

GetCurrentRva ==
    /\ SessionReady
    /\ call' = [NoCall EXCEPT !.fn = "get_current_rva",
                              !.value = get_current_rva]
    /\ UNCHANGED <<current_rva, last_set>>
    /\ BufferUnchanged /\ ExplorerUnchanged

DecodeCurrent ==
    /\ SessionReady
    /\ call' = [NoCall EXCEPT !.fn = "decode_current",
                              !.insts = <<decode_current.inst>>,
                              !.value = decode_current.size,
                              !.decoded = {current_rva}]
    /\ UNCHANGED <<current_rva, last_set>>
    /\ BufferUnchanged /\ ExplorerUnchanged

GetBranches ==
    /\ SessionReady
    /\ call' = [NoCall EXCEPT !.fn = "get_branches",
                              !.insts = <<decode_current.inst>>,
                              !.branches = get_branches(current_rva),
                              !.decoded = {current_rva}]
    /\ UNCHANGED <<current_rva, last_set>>
    /\ BufferUnchanged /\ ExplorerUnchanged

GetBlock(a) ==
    /\ SessionReady
    /\ \E r \in get_block(a) :
          /\ current_rva' = r.cursor
          /\ call' = [NoCall EXCEPT !.fn = "get_block", !.arg1 = a,
                                    !.returned = r.returned, !.block = r.block,
                                    !.insts = r.block.insts,
                                    !.branches = get_branches(r.cursor),
                                    !.decoded = r.decoded]
          /\ last_set' = IF r.block.insts = <<>> THEN a ELSE r.block.rva_end
    /\ BufferUnchanged /\ ExplorerUnchanged

DumpSection(begin, end) ==
    /\ SessionReady
    /\ \E r \in dump_section(begin, end) :
          /\ current_rva' = r.cursor
          /\ call' = [NoCall EXCEPT !.fn = "dump_section", !.arg1 = begin,
                                    !.arg2 = end,
                                    !.returned = r.returned, !.insts = r.insts,
                                    !.decoded = r.decoded, !.consumed = r.consumed]
          /\ last_set' = IF r.insts = <<>> THEN last_set ELSE r.cursor
    /\ BufferUnchanged /\ ExplorerUnchanged

\* ------------------------------------------------------ main: explorer
SessionUnchanged == UNCHANGED <<current_rva, call, last_set>>

\* the lambda insert_branch applied to the pair [discovered, queue]
insert_branch(st, branch_rva) ==
    IF branch_rva # NoBranch
    THEN IF branch_rva \notin st.discovered
         THEN [discovered |-> st.discovered \cup {branch_rva},
               queue |-> Append(st.queue, branch_rva)]
         ELSE st
    ELSE st

\* lines 203-207: the containers and the seed. The explorer works on sessions
\* of its own (line 211), it is started with the outer session untouched
ExplorerInit ==
    /\ SessionReady
    /\ call = NoCall
    /\ \E seed \in Addr :
          /\ start_rva' = seed
          /\ rva_queue' = <<seed>>
    /\ discovered_rvas' = {}
    /\ blocks' = <<>>
    /\ pc' = "loop"
    /\ UNCHANGED first_run
    /\ BufferUnchanged /\ SessionUnchanged

\* a loop test that lets the body run while one address is queued
LoopConditionAtMostOne == Len(rva_queue) <= 1

\* the condition of the while loop of main
LoopCondition == rva_queue = <<>>

\* one evaluation of the while loop: its test and, when it holds, its body;
\* get_block is called without an argument, the block starts anywhere
ExplorerLoop ==
    /\ pc = "loop"
    /\ IF LoopCondition
       THEN \E a \in Addr : \E r \in get_block(a) :
               /\ Len(blocks) < MaxBlocks
               /\ IF r.returned
                  THEN LET s1 == insert_branch([discovered |-> discovered_rvas,
                                                queue |-> rva_queue],
                                               r.block.branch_one)
                           s2 == insert_branch(s1, r.block.branch_two)
                       IN  /\ discovered_rvas' = s2.discovered
                           /\ rva_queue' = s2.queue
                           /\ blocks' = Append(blocks, r.block)
                           /\ pc' = "loop"
                  ELSE /\ pc' = "hung"
                       /\ UNCHANGED <<discovered_rvas, rva_queue, blocks>>
       ELSE /\ pc' = "done"
            /\ UNCHANGED <<discovered_rvas, rva_queue, blocks>>
    /\ UNCHANGED <<start_rva, first_run>>
    /\ BufferUnchanged /\ SessionUnchanged

\* main() run once more on the same buffer and seed (lines 203-207 again);
\* what the run before ended with is kept for comparison
ExplorerRerun ==
    /\ pc = "done"
    /\ ~first_run.done
    /\ first_run' = [done |-> TRUE, discovered |-> discovered_rvas, blocks |-> blocks]
    /\ discovered_rvas' = {}
    /\ blocks' = <<>>
    /\ rva_queue' = <<start_rva>>
    /\ pc' = "loop"
    /\ UNCHANGED start_rva
    /\ BufferUnchanged /\ SessionUnchanged

Next ==
    \/ \E a \in Addr : SetCurrentRva(a)
    \/ GetCurrentRva
    \/ DecodeCurrent
    \/ GetBranches
    \/ \E a \in Addr : GetBlock(a)
    \/ \E b \in Addr, e \in Addr : DumpSection(b, e)
    \/ ExplorerInit
    \/ ExplorerLoop
    \/ ExplorerRerun

Spec == Init /\ [][Next]_vars

\* the side-channel report of failed addresses: main() declares and fills none
failure_report == {}

\* ------------------------------------------------ vocabulary of the claims
\* the addresses of the buffer, [base, base + size)
InRange(a) == rva <= a /\ a < rva + buffer_size

\* the instruction that starts at address a of the buffer
InstAt(a) == data_buffer_begin[a - rva + 1]

\* address a holds an instruction that lies inside the buffer
ValidAt(a) ==
    /\ InRange(a)
    /\ InstAt(a) # Bad
    /\ a + InstAt(a).length <= rva + buffer_size

RECURSIVE SumLen(_)
SumLen(insts) ==
    IF insts = <<>> THEN 0 ELSE Head(insts).length + SumLen(Tail(insts))

\* the instructions that tile [a, end), when they do
RECURSIVE Region(_, _)
Region(a, end) ==
    IF a = end THEN [ok |-> TRUE, insts |-> <<>>]
    ELSE IF a > end \/ ~ValidAt(a) THEN [ok |-> FALSE, insts |-> <<>>]
         ELSE LET rest == Region(a + InstAt(a).length, end)
              IN  [ok |-> rest.ok, insts |-> <<InstAt(a)>> \o rest.insts]

\* the i-th instruction of insts starts where the (i-1)-th ends, from start on
Tiles(insts, start) ==
    \A i \in 1 .. Len(insts) :
        LET at == start + SumLen(SubSeq(insts, 1, i - 1))
        IN  ValidAt(at) /\ insts[i] = InstAt(at)

BlocksAt(a) == {i \in DOMAIN blocks : blocks[i].rva_begin = a}

SuccessorsOf(b) == {b.branch_one, b.branch_two} \ {NoBranch}

AllSuccessors == UNION {SuccessorsOf(blocks[i]) : i \in DOMAIN blocks}

\* ------------------------------------------------------------------ claims

C2_BlockSpansItsInstructions ==
    (call.fn = "get_block" /\ call.returned) =>
        /\ call.block.rva_begin = call.arg1
        /\ call.block.rva_end = U32(call.arg1 + SumLen(call.block.insts))
        /\ call.block.rva_end >= call.block.rva_begin
        /\ Tiles(call.block.insts, call.arg1)

\* C3: a block returned by get_block is not empty, its last instruction is a
\* control transfer and the earlier ones are not; started at a control
\* transfer the block holds exactly that instruction.
C3_BlockEndsWithControlTransfer ==
    (call.fn = "get_block" /\ call.returned) =>
        LET insts == call.block.insts
        IN  /\ insts # <<>>
            /\ insts[Len(insts)].branching # "none"
            /\ \A i \in 1 .. Len(insts) - 1 : insts[i].branching = "none"
            /\ (ValidAt(call.arg1) /\ InstAt(call.arg1).branching # "none") =>
                  /\ insts = <<InstAt(call.arg1)>>
                  /\ call.block.rva_end = U32(call.arg1 + InstAt(call.arg1).length)

\* C4: for a conditional branch at address A of length len and target T the
\* successor query returns <<A + len, T>>.
C4_ConditionalBranchOrder ==
    (call.fn = "get_branches" /\ ValidAt(current_rva)
        /\ InstAt(current_rva).branching = "jcc") =>
        LET inst == InstAt(current_rva)
            fall == U32(current_rva + inst.length)
        IN  call.branches = <<fall, U32(fall + inst.operands[1].rel)>>

\* C5: the successor query returns the address of the next instruction for a
\* non-branching instruction, the target for an unconditional branch, nothing
\* for a return, and never more than two addresses.
C5_SuccessorListConvention ==
    (call.fn = "get_branches" /\ ValidAt(current_rva)) =>
        LET inst == InstAt(current_rva)
            next == U32(current_rva + inst.length)
        IN  /\ Len(call.branches) <= 2
            /\ inst.branching = "none" =>
                  (inst.length > 0 /\ call.branches = <<next>>)
            /\ inst.branching = "jmp" =>
                  call.branches = <<U32(next + inst.operands[1].rel)>>
            /\ inst.branching = "ret" => call.branches = <<>>

\* C6: the explorer is done only when the worklist is empty, every address
\* that was put on the worklist having been popped and built.
C6_DoneOnlyWhenWorklistEmpty ==
    pc = "done" => rva_queue = <<>>

\* C7: when the explorer is done the discovered set is the seed plus every
\* successor of every built block, and every discovered address has a block
\* or a recorded failure.
C7_DiscoveredIsReachable ==
    pc = "done" =>
        /\ discovered_rvas = {start_rva} \cup AllSuccessors
        /\ \A a \in discovered_rvas :
              BlocksAt(a) # {} \/ (\E f \in failure_report : f[1] = a)

\* C8: the decoder is never invoked with the cursor outside [base, base+size)
\* and get_block at such an address produces no block.
C8_OutOfRangeNeverDecoded ==
    /\ \A a \in call.decoded : InRange(a)
    /\ (call.fn = "get_block" /\ ~InRange(call.arg1)) => ~call.returned

\* C9: with a seed outside [base, base+size) the run ends with no block and
\* exactly one recorded failure, the one of the seed.
C9_SeedOutOfRangeRecorded ==
    (pc = "done" /\ ~InRange(start_rva)) =>
        /\ blocks = <<>>
        /\ Cardinality(failure_report) = 1
        /\ \A f \in failure_report : f[1] = start_rva

\* C10: dump_section(begin, end) over a region that N instructions tile
\* returns those N instructions in address order, from begin whatever the
\* cursor was, and the lengths it consumed sum to end - begin.
C10_DumpReturnsTheRegion ==
    (call.fn = "dump_section" /\ Region(call.arg1, call.arg2).ok) =>
        /\ call.returned
        /\ call.insts = Region(call.arg1, call.arg2).insts
        /\ SumLen(call.insts) = call.arg2 - call.arg1

\* the error get_block hands to its caller: its result is a basic_block and
\* the status of the decoder is dropped (line 155), there is none
get_block_error == "none"

Range(q) == {q[i] : i \in DOMAIN q}

\* the addresses in the order of their first discovery: the seed, then the
\* successors of each block of the result that were not seen before
RECURSIVE DiscoveryOrder(_, _)
DiscoveryOrder(k, seed) ==
    IF k = 0 THEN <<seed>>
    ELSE LET acc == DiscoveryOrder(k - 1, seed)
             one == IF blocks[k].branch_one \in Range(acc) \cup {NoBranch}
                    THEN acc ELSE Append(acc, blocks[k].branch_one)
         IN  IF blocks[k].branch_two \in Range(one) \cup {NoBranch}
             THEN one ELSE Append(one, blocks[k].branch_two)

\* C11: dump_section(begin, end) terminates, each pass decodes at a start
\* address in [begin, end) above the one of the pass before, and nothing that
\* starts at or after end is decoded.
C11_DumpTerminatesBelowEnd ==
    call.fn = "dump_section" =>
        /\ call.returned
        /\ \A a \in call.decoded : call.arg1 <= a /\ a < call.arg2
        /\ Cardinality(call.decoded) = Len(call.insts)

\* C12: when the decoder fails during get_block, construction aborts, the
\* decoder's error goes to the caller and no block is returned.
C12_DecodeFailureAborts ==
    (call.fn = "get_block"
        /\ ~ZydisDecoderDecodeFull(data_buffer_begin, DecodeOffset, DecodeWindow).ok) =>
        /\ get_block_error # "none"
        /\ ~call.returned
        /\ call.block.insts = <<>>

\* C13: when the explorer is done the popped addresses are off the worklist
\* and the blocks of the result are in the order in which their start
\* addresses were first discovered, the seed's block first.
C13_BlocksInDiscoveryOrder ==
    pc = "done" =>
        /\ \A i \in DOMAIN blocks : blocks[i].rva_begin \notin Range(rva_queue)
        /\ [i \in DOMAIN blocks |-> blocks[i].rva_begin]
              = DiscoveryOrder(Len(blocks), start_rva)

\* C16: from the initial state of the explorer on, every address on the
\* worklist is in the discovered set and the worklist holds no address twice.
C16_WorklistWithinDiscovered ==
    pc \in {"loop", "done"} =>
        /\ Range(rva_queue) \subseteq discovered_rvas
        /\ Cardinality(Range(rva_queue)) = Len(rva_queue)

\* C17: decode_current decodes the instruction at buffer offset
\* cursor - base and returns its length, which is at least 1 and at most the
\* bytes left in the buffer.
C17_DecodeAtCursorOffset ==
    (call.fn = "decode_current" /\ ValidAt(current_rva)) =>
        /\ call.insts = <<InstAt(current_rva)>>
        /\ call.value = InstAt(current_rva).length
        /\ call.value >= 1
        /\ call.value <= rva + buffer_size - current_rva

\* C18: a session constructed with (buffer, size, rva) has rva_begin = rva and
\* rva_end = rva + size, in every state.
C18_SessionAddressesItsBuffer ==
    /\ rva_begin = rva
    /\ rva_end = U32(rva + buffer_size)

\* C19: the branch slots of a built block are the entries of the list
\* get_branches returned, a slot without an entry holds the marker -1, and
\* only the seed and such entries are ever discovered or queued.
C19_NoInventedSuccessor ==
    /\ (call.fn = "get_block" /\ call.returned) =>
          /\ call.block.branch_one =
                (IF Len(call.branches) >= 1 THEN call.branches[1] ELSE NoBranch)
          /\ call.block.branch_two =
                (IF Len(call.branches) >= 2 THEN call.branches[2] ELSE NoBranch)
    /\ pc \in {"loop", "done"} =>
          discovered_rvas \cup Range(rva_queue) \subseteq {start_rva} \cup AllSuccessors

\* the blocks of two results are the same multiset
SameBlocks(b1, b2) ==
    \A b \in Range(b1) \cup Range(b2) :
        Cardinality({i \in DOMAIN b1 : b1[i] = b}) =
        Cardinality({i \in DOMAIN b2 : b2[i] = b})

\* C14: a second exploration run from the same seed over the same buffer ends
\* with the discovered set and the multiset of blocks the first run ended with.
C14_RunsAgree ==
    (pc = "done" /\ first_run.done) =>
        /\ discovered_rvas = first_run.discovered
        /\ SameBlocks(blocks, first_run.blocks)

C14_SecondRunDone == pc = "done" /\ first_run.done

\* C15: set_current_rva(a) leaves the cursor at a and returns the cursor held
\* before; get_current_rva returns the cursor and changes nothing; once a
\* set_current_rva was made the cursor is the argument of the latest one.
C15_CursorGetSet ==
    [][ /\ call'.fn = "set_current_rva" =>
              /\ current_rva' = call'.arg1
              /\ call'.value = current_rva
        /\ call'.fn = "get_current_rva" =>
              /\ call'.value = current_rva
              /\ current_rva' = current_rva
              /\ last_set' = last_set
        /\ last_set' # NeverSet => current_rva' = last_set' ]_vars

C15_GetAfterSet ==
    /\ call.fn = "get_current_rva"
    /\ last_set # NeverSet
    /\ call.value = last_set

====
